---- MODULE Spec2Model ----
(***************************************************************************)
(* Model of quinn/scala_to_pyspark.py: the ScalaToPyspark line rewriter.   *)
(*                                                                         *)
(* A Python str is a sequence of one-character strings, so that            *)
(* startswith, replace, strip, split, join and the regular expression of   *)
(* clean_function_definition are computed character by character, as the   *)
(* interpreter computes them.  The texts contain no carriage return, so    *)
(* the universal-newline translation of open(..., "r") is the identity.    *)
(***************************************************************************)
EXTENDS Integers, Sequences, FiniteSets

VARIABLES text, result, pc

vars == <<text, result, pc>>

(* ---------------------------------------------------------------------- *)
(* Bounds of the model.                                                    *)
(* ---------------------------------------------------------------------- *)

\* Number of tokens a text is put together from.
MaxTokens == 4

(* ---------------------------------------------------------------------- *)
(* Character classes and the literals of the source.                       *)
(* ---------------------------------------------------------------------- *)

\* Characters str.strip()/str.lstrip() remove and \s matches.
Whitespace == {" ", "\t", "\n", "\r", "\f"}

\* Characters \w matches.
WordChars ==
    {"a", "b", "c", "d", "e", "f", "g", "h", "i", "j", "k", "l", "m", "n",
     "o", "p", "q", "r", "s", "t", "u", "v", "w", "x", "y", "z",
     "A", "B", "C", "D", "E", "F", "G", "H", "I", "J", "K", "L", "M", "N",
     "O", "P", "Q", "R", "S", "T", "U", "V", "W", "X", "Y", "Z",
     "0", "1", "2", "3", "4", "5", "6", "7", "8", "9", "_"}

NL == <<"\n">>

KwPackage == <<"p", "a", "c", "k", "a", "g", "e">>

ScalaDataFrameImport ==
    <<"i", "m", "p", "o", "r", "t", " ", "o", "r", "g", ".", "a", "p", "a",
      "c", "h", "e", ".", "s", "p", "a", "r", "k", ".", "s", "q", "l", ".",
      "D", "a", "t", "a", "F", "r", "a", "m", "e">>

PyDataFrameImport ==
    <<"f", "r", "o", "m", " ", "p", "y", "s", "p", "a", "r", "k", ".", "s",
      "q", "l", ".", "d", "a", "t", "a", "f", "r", "a", "m", "e", " ", "i",
      "m", "p", "o", "r", "t", " ", "D", "a", "t", "a", "F", "r", "a", "m",
      "e", "\n">>

ScalaFunctionsImport ==
    <<"i", "m", "p", "o", "r", "t", " ", "o", "r", "g", ".", "a", "p", "a",
      "c", "h", "e", ".", "s", "p", "a", "r", "k", ".", "s", "q", "l", ".",
      "f", "u", "n", "c", "t", "i", "o", "n", "s">>

PyFunctionsImport ==
    <<"i", "m", "p", "o", "r", "t", " ", "p", "y", "s", "p", "a", "r", "k",
      ".", "s", "q", "l", ".", "f", "u", "n", "c", "t", "i", "o", "n", "s",
      " ", "a", "s", " ", "F", "\n">>

ImportScala == <<"i", "m", "p", "o", "r", "t", " ", "s", "c", "a", "l", "a">>

KwVal == <<"v", "a", "l", " ">>
KwVar == <<"v", "a", "r", " ">>
ClosingBrace == <<"}">>
KwDef == <<"d", "e", "f">>
DefPrefix == <<"d", "e", "f", " ">>
DefSuffix == <<")", ":", "\n">>
ColCall == <<"c", "o", "l", "(">>
FColCall == <<"F", ".", "c", "o", "l", "(">>
LitNull == <<"n", "u", "l", "l">>
LitNone == <<"N", "o", "n", "e">>
LitTrue == <<"t", "r", "u", "e">>
LitPyTrue == <<"T", "r", "u", "e">>
LitFalse == <<"f", "a", "l", "s", "e">>
LitPyFalse == <<"F", "a", "l", "s", "e">>
CommaSpace == <<",", " ">>
ColonSpace == <<":", " ">>

(* ---------------------------------------------------------------------- *)
(* Python str operations.                                                  *)
(* ---------------------------------------------------------------------- *)

\* s.startswith(p)
StartsWith(s, p) ==
    /\ Len(p) <= Len(s)
    /\ \A i \in 1..Len(p) : s[i] = p[i]

\* s[i:] (one-based: the characters from position i on)
From(s, i) == SubSeq(s, i, Len(s))

\* p in s
Contains(s, p) ==
    \E i \in 1..(Len(s) + 1) : StartsWith(From(s, i), p)

\* s.find(p) + 1, or 0 when p does not occur
Find(s, p) ==
    IF Contains(s, p)
    THEN CHOOSE i \in 1..(Len(s) + 1) :
            /\ StartsWith(From(s, i), p)
            /\ \A j \in 1..(i - 1) : ~StartsWith(From(s, j), p)
    ELSE 0

\* s.replace(old, new) for a non-empty old: the non-overlapping occurrences,
\* found in one scan from the left, are replaced.
RECURSIVE Replace(_, _, _)
Replace(s, old, new) ==
    LET i == Find(s, old)
    IN  IF i = 0
        THEN s
        ELSE SubSeq(s, 1, i - 1) \o new
                \o Replace(From(s, i + Len(old)), old, new)

\* s.lstrip()
RECURSIVE LStrip(_)
LStrip(s) ==
    IF s # <<>> /\ Head(s) \in Whitespace THEN LStrip(Tail(s)) ELSE s

\* s.rstrip()
RECURSIVE RStrip(_)
RStrip(s) ==
    IF s # <<>> /\ s[Len(s)] \in Whitespace
    THEN RStrip(SubSeq(s, 1, Len(s) - 1))
    ELSE s

\* s.strip()
Strip(s) == RStrip(LStrip(s))

\* s.split(sep) for a non-empty sep
RECURSIVE Split(_, _)
Split(s, sep) ==
    LET i == Find(s, sep)
    IN  IF i = 0
        THEN <<s>>
        ELSE <<SubSeq(s, 1, i - 1)>> \o Split(From(s, i + Len(sep)), sep)

\* sep.join(parts)
RECURSIVE Join(_, _)
Join(parts, sep) ==
    IF parts = <<>> THEN <<>>
    ELSE IF Len(parts) = 1 THEN parts[1]
    ELSE parts[1] \o sep \o Join(Tail(parts), sep)

\* text_file.readlines(): the text cut after each newline; every line keeps
\* its newline, and a last line without one is a line too.
RECURSIVE readlines(_)
readlines(t) ==
    LET i == Find(t, NL)
    IN  IF t = <<>> THEN <<>>
        ELSE IF i = 0 THEN <<t>>
        ELSE <<SubSeq(t, 1, i)>> \o readlines(From(t, i + 1))

(* ---------------------------------------------------------------------- *)
(* clean_args and clean_function_definition.                               *)
(* ---------------------------------------------------------------------- *)

\* lambda a: a.split(": ")[0]
ArgName(a) == Split(a, ColonSpace)[1]

\* clean_args that joins with ": "
clean_args_colon_join(args) ==
    LET entries == Split(args, CommaSpace)
    IN  Join([i \in 1..Len(entries) |-> ArgName(entries[i])], ColonSpace)

\* clean_args(args)
clean_args(args) ==
    LET entries == Split(args, CommaSpace)
        unannoted_args_list == [i \in 1..Len(entries) |-> ArgName(entries[i])]
    IN  Join(unannoted_args_list, CommaSpace)

\* Every character of s at the positions a..b is in the set S.
AllIn(s, a, b, S) == \A x \in a..b : s[x] \in S

\* "." matches every character but the newline.
AllDot(s, a, b) == \A x \in a..b : s[x] # "\n"

\* The ways  (\s*)def (\w+).*\((.*)\)  matches s: the match starts at i,
\* \s* takes k characters, \w+ takes n, "\(" is at t and "\)" at u.
ReMatches(s) ==
    LET L == Len(s)
        Defs == {j \in 1..L : StartsWith(From(s, j), DefPrefix)}
        Opens == {t \in 1..L : s[t] = "("}
        Closes == {u \in 1..L : s[u] = ")"}
        \* (\s*)def : start i, whitespace up to the "def " at j
        Heads == {h \in (1..L) \X Defs :
                    /\ h[1] <= h[2]
                    /\ AllIn(s, h[1], h[2] - 1, Whitespace)}
        \* (\w+) : n word characters after "def "
        Names == {x \in Heads \X (1..L) :
                    /\ x[1][2] + 3 + x[2] <= L
                    /\ AllIn(s, x[1][2] + 4, x[1][2] + 3 + x[2], WordChars)}
        \* \((.*)\) : "(" at t, ")" at u, no newline between them
        Groups == {g \in Opens \X Closes :
                    /\ g[1] < g[2]
                    /\ AllDot(s, g[1] + 1, g[2] - 1)}
        \* .* : no newline between the name and "("
        Whole == {y \in Names \X Groups :
                    /\ y[1][1][2] + 4 + y[1][2] <= y[2][1]
                    /\ AllDot(s, y[1][1][2] + 4 + y[1][2], y[2][1] - 1)}
    IN  {[i |-> y[1][1][1], k |-> y[1][1][2] - y[1][1][1], n |-> y[1][2],
          t |-> y[2][1], u |-> y[2][2]] : y \in Whole}

\* m is tried before o by the backtracking matcher: re.search takes the
\* leftmost start, and each greedy quantifier in turn its longest extent.
Before(m, o) ==
    \/ m.i < o.i
    \/ m.i = o.i /\ m.k > o.k
    \/ m.i = o.i /\ m.k = o.k /\ m.n > o.n
    \/ m.i = o.i /\ m.k = o.k /\ m.n = o.n /\ m.t > o.t
    \/ m.i = o.i /\ m.k = o.k /\ m.n = o.n /\ m.t = o.t /\ m.u > o.u

\* The match the backtracking matcher finds first among the matches ms.
ReFirst(ms) == CHOOSE m \in ms : \A o \in ms : o = m \/ Before(m, o)

\* re.search(r"(\s*)def (\w+).*\((.*)\)", s), when the pattern matches s.
ReSearch(s) == ReFirst(ReMatches(s))

\* m.group(1), m.group(2), m.group(3)
Group1(s, m) == SubSeq(s, m.i, m.i + m.k - 1)
Group2(s, m) == SubSeq(s, m.i + m.k + 4, m.i + m.k + 3 + m.n)
Group3(s, m) == SubSeq(s, m.t + 1, m.u - 1)

\* clean_function_definition(s)
clean_function_definition(s) ==
    LET ms == ReMatches(s)
    IN  IF ms # {}
        THEN LET m == ReFirst(ms)
                 whitespace == Group1(s, m)
                 method_name == Group2(s, m)
                 args == Group3(s, m)
                 cleaned_args == clean_args(args)
             IN  whitespace \o DefPrefix \o method_name \o <<"(">>
                    \o cleaned_args \o DefSuffix
        ELSE s

(* ---------------------------------------------------------------------- *)
(* The statements of lines(), each on the whole line list.                 *)
(* ---------------------------------------------------------------------- *)

\* DataFrameLine by x.replace(...) of the statement alone
DataFrameLineReplace(x) ==
    Replace(x, ScalaDataFrameImport,
            SubSeq(PyDataFrameImport, 1, Len(PyDataFrameImport) - 1))

\* "from pyspark.sql.dataframe import DataFrame\n"
\*     if x.startswith("import org.apache.spark.sql.DataFrame") else x
DataFrameLine(x) ==
    IF StartsWith(x, ScalaDataFrameImport) THEN PyDataFrameImport ELSE x

\* "import pyspark.sql.functions as F\n"
\*     if x.startswith("import org.apache.spark.sql.functions") else x
FunctionsLine(x) ==
    IF StartsWith(x, ScalaFunctionsImport) THEN PyFunctionsImport ELSE x

\* x.replace("val ", "")
ValLine(x) == Replace(x, KwVal, <<>>)

\* VarLine by x.replace("var ", "", 1)
VarLineOnce(x) ==
    LET i == Find(x, KwVar)
    IN  IF i = 0 THEN x ELSE SubSeq(x, 1, i - 1) \o From(x, i + Len(KwVar))

\* x.replace("var ", "")
VarLine(x) == Replace(x, KwVar, <<>>)

\* self.clean_function_definition(x) if x.lstrip().startswith("def") else x
DefLine(x) ==
    IF StartsWith(LStrip(x), KwDef) THEN clean_function_definition(x) ELSE x

\* x.replace("col(", "F.col(")
ColLine(x) == Replace(x, ColCall, FColCall)

\* NullLine by x.replace("null", "None", 1)
NullLineOnce(x) ==
    LET i == Find(x, LitNull)
    IN  IF i = 0
        THEN x
        ELSE SubSeq(x, 1, i - 1) \o LitNone \o From(x, i + Len(LitNull))

\* x.replace("null", "None")
NullLine(x) == Replace(x, LitNull, LitNone)

\* x.replace("true", "True")
TrueLine(x) == Replace(x, LitTrue, LitPyTrue)

\* x.replace("false", "False")
FalseLine(x) == Replace(x, LitFalse, LitPyFalse)

\* lambda line: not line.startswith("package")
NotPackage(line) == ~StartsWith(line, KwPackage)

\* lambda line: not line.startswith("import scala")
NotImportScala(line) == ~StartsWith(line, ImportScala)

\* lambda line: line.strip() != "}"
NotClosingBrace(line) == Strip(line) # ClosingBrace

\* DropPackage with the test inverted: filter(lambda line: line.startswith(...))
DropPackageInverted(ls) == SelectSeq(ls, LAMBDA line : ~NotPackage(line))

\* list(filter(lambda line: not line.startswith("package"), result))
DropPackage(ls) == SelectSeq(ls, NotPackage)

\* [... if x.startswith("import org.apache.spark.sql.DataFrame") else x ...]
RewriteDataFrame(ls) == [i \in 1..Len(ls) |-> DataFrameLine(ls[i])]

\* [... if x.startswith("import org.apache.spark.sql.functions") else x ...]
RewriteFunctions(ls) == [i \in 1..Len(ls) |-> FunctionsLine(ls[i])]

\* list(filter(lambda line: not line.startswith("import scala"), result))
DropImportScala(ls) == SelectSeq(ls, NotImportScala)

\* StripVal that extends the list instead of replacing it
StripValExtend(ls) == ls \o [i \in 1..Len(ls) |-> ValLine(ls[i])]

\* StripVal over result[1:]
StripValTail(ls) == [i \in 1..(Len(ls) - 1) |-> ValLine(ls[i + 1])]

\* [x.replace("val ", "") for x in result]
StripVal(ls) == [i \in 1..Len(ls) |-> ValLine(ls[i])]

\* [x.replace("var ", "") for x in result]
StripVar(ls) == [i \in 1..Len(ls) |-> VarLine(ls[i])]

\* DropClosingBrace that builds its list by prepending
DropClosingBraceReversed(ls) ==
    LET kept == SelectSeq(ls, NotClosingBrace)
    IN  [i \in 1..Len(kept) |-> kept[Len(kept) + 1 - i]]

\* list(filter(lambda line: line.strip() != "}", result))
DropClosingBrace(ls) == SelectSeq(ls, NotClosingBrace)

\* [self.clean_function_definition(x) if ... else x for x in result]
CleanDefinitions(ls) == [i \in 1..Len(ls) |-> DefLine(ls[i])]

\* [x.replace("col(", "F.col(") for x in result]
PrefixCol(ls) == [i \in 1..Len(ls) |-> ColLine(ls[i])]

\* [x.replace("null", "None") for x in result]
ReplaceNull(ls) == [i \in 1..Len(ls) |-> NullLine(ls[i])]

\* [x.replace("true", "True") for x in result]
ReplaceTrue(ls) == [i \in 1..Len(ls) |-> TrueLine(ls[i])]

\* [x.replace("false", "False") for x in result]
ReplaceFalse(ls) == [i \in 1..Len(ls) |-> FalseLine(ls[i])]

(* ---------------------------------------------------------------------- *)
(* lines(): one action per statement.  pc names the statement to run next. *)
(* ---------------------------------------------------------------------- *)

\* result = text_file.readlines()
ReadLines ==
    /\ pc = "readlines"
    /\ result' = readlines(text)
    /\ pc' = "package"
    /\ UNCHANGED text

\* remove lines that start with package
FilterPackage ==
    /\ pc = "package"
    /\ result' = DropPackage(result)
    /\ pc' = "dataframe"
    /\ UNCHANGED text

\* replace the DataFrame import
MapDataFrame ==
    /\ pc = "dataframe"
    /\ result' = RewriteDataFrame(result)
    /\ pc' = "functions"
    /\ UNCHANGED text

\* replace the functions import
MapFunctions ==
    /\ pc = "functions"
    /\ result' = RewriteFunctions(result)
    /\ pc' = "scala"
    /\ UNCHANGED text

\* remove scala import statements
FilterImportScala ==
    /\ pc = "scala"
    /\ result' = DropImportScala(result)
    /\ pc' = "val"
    /\ UNCHANGED text

\* remove the vals
MapVal ==
    /\ pc = "val"
    /\ result' = StripVal(result)
    /\ pc' = "var"
    /\ UNCHANGED text

\* remove the vars
MapVar ==
    /\ pc = "var"
    /\ result' = StripVar(result)
    /\ pc' = "brace"
    /\ UNCHANGED text

\* remove ending curly braces
FilterClosingBrace ==
    /\ pc = "brace"
    /\ result' = DropClosingBrace(result)
    /\ pc' = "def"
    /\ UNCHANGED text

\* clean up the function definitions
MapDef ==
    /\ pc = "def"
    /\ result' = CleanDefinitions(result)
    /\ pc' = "col"
    /\ UNCHANGED text

\* prefix SQL functions with F
MapCol ==
    /\ pc = "col"
    /\ result' = PrefixCol(result)
    /\ pc' = "null"
    /\ UNCHANGED text

\* replace null with None
MapNull ==
    /\ pc = "null"
    /\ result' = ReplaceNull(result)
    /\ pc' = "true"
    /\ UNCHANGED text

\* capital case true
MapTrue ==
    /\ pc = "true"
    /\ result' = ReplaceTrue(result)
    /\ pc' = "false"
    /\ UNCHANGED text

\* capital case false
MapFalse ==
    /\ pc = "false"
    /\ result' = ReplaceFalse(result)
    /\ pc' = "return"
    /\ UNCHANGED text

\* return result
Return ==
    /\ pc = "return"
    /\ pc' = "done"
    /\ UNCHANGED <<text, result>>

Next ==
    \/ ReadLines
    \/ FilterPackage
    \/ MapDataFrame
    \/ MapFunctions
    \/ FilterImportScala
    \/ MapVal
    \/ MapVar
    \/ FilterClosingBrace
    \/ MapDef
    \/ MapCol
    \/ MapNull
    \/ MapTrue
    \/ MapFalse
    \/ Return

(* ---------------------------------------------------------------------- *)
(* The texts: up to MaxTokens tokens of a token set, one after the other.  *)
(* ---------------------------------------------------------------------- *)

RECURSIVE Flatten(_)
Flatten(ts) == IF ts = <<>> THEN <<>> ELSE Head(ts) \o Flatten(Tail(ts))

Texts(T) ==
    {Flatten(ts) : ts \in UNION {[1..k -> T] : k \in 0..MaxTokens}}

\* The file at scala_path holds one of the texts; lines() has not run yet.
Start(T) ==
    /\ text \in Texts(T)
    /\ result = <<>>
    /\ pc = "readlines"

\* Lines with package declarations, bindings, braces, imports and literals.
Tokens ==
    {NL, <<" ">>, KwPackage, KwVal, ClosingBrace, ImportScala, LitTrue}

Init == Start(Tokens)

Spec == Init /\ [][Next]_vars

\* Lines with the imports lines() rewrites or drops.
ImportTokens ==
    {NL, <<" ">>, ScalaDataFrameImport, ScalaFunctionsImport, ImportScala,
     <<".", "_">>}

InitImports == Start(ImportTokens)

SpecImports == InitImports /\ [][Next]_vars

\* Lines with the binding keywords, whole and in pieces.
BindingTokens ==
    {NL, KwVal, KwVar, <<"v">>, <<"a", "l", " ">>, <<"v", "a">>, <<"l", " ">>}

InitBindings == Start(BindingTokens)

SpecBindings == InitBindings /\ [][Next]_vars

\* Lines with the literals, whole and in pieces.
LiteralTokens ==
    {NL, LitNull, LitTrue, LitFalse, <<"n", "u">>, <<"l", "l">>,
     <<"t", "r">>, <<"u", "e">>}

InitLiterals == Start(LiteralTokens)

SpecLiterals == InitLiterals /\ [][Next]_vars

(* ---------------------------------------------------------------------- *)
(* clean_function_definition called on a str, and again on what it         *)
(* returned.  text is the argument s, result the values returned so far.   *)
(* ---------------------------------------------------------------------- *)

\* clean_function_definition(s)
CallClean ==
    /\ pc = "clean"
    /\ result' = <<clean_function_definition(text)>>
    /\ pc' = "cleaned"
    /\ UNCHANGED text

\* clean_function_definition(clean_function_definition(s))
CallCleanAgain ==
    /\ pc = "cleaned"
    /\ result' = Append(result, clean_function_definition(result[1]))
    /\ pc' = "recleaned"
    /\ UNCHANGED text

NextCleaner == CallClean \/ CallCleanAgain

\* Definition lines: a name, parameter lists, a return type, indentation.
DefTokens ==
    {NL, <<" ">>, <<"(">>, DefPrefix, <<"d", "e", "f", " ", "f">>,
     <<"(", "a", ":", " ", "I", "n", "t">>,
     <<",", " ", "b", ":", " ", "I", "n", "t">>,
     <<")">>, <<"(", "b", ")">>,
     <<":", " ", "(", "I", "n", "t", ",", " ", "I", "n", "t", ")">>}

InitCleaner ==
    /\ text \in Texts(DefTokens)
    /\ result = <<>>
    /\ pc = "clean"

SpecCleaner == InitCleaner /\ [][NextCleaner]_vars

(* ---------------------------------------------------------------------- *)
(* Properties of lines() and of clean_function_definition.                 *)
(* ---------------------------------------------------------------------- *)

\* The input line sequence of lines().
Input == readlines(text)

\* The statements that map the lines, and the ones that filter them.
MapPcs == {"dataframe", "functions", "val", "var", "def", "col", "null",
           "true", "false"}
FilterPcs == {"package", "scala", "brace"}

\* What the map statements, in their order, make of one line.
RewriteLine(x) ==
    FalseLine(TrueLine(NullLine(ColLine(DefLine(VarLine(ValLine(
        FunctionsLine(DataFrameLine(x)))))))))

\* The j-th smallest element of a set of positions.
Nth(S, j) == CHOOSE x \in S : Cardinality({y \in S : y <= x}) = j

\* out is, line by line and in order, the rewrite of the lines of in at the
\* positions S.
IsRewriteOf(out, in, S) ==
    /\ Cardinality(S) = Len(out)
    /\ \A j \in 1..Len(out) : out[j] = RewriteLine(in[Nth(S, j)])

\* The sets of input positions the output can have come from.
Survivors == {S \in SUBSET (DOMAIN Input) : IsRewriteOf(result, Input, S)}

\* C1: the line count never exceeds the input's; a filter statement never
\* raises it and a map statement keeps it.
LengthMonotone ==
    /\ [](pc # "readlines" => Len(result) <= Len(Input))
    /\ [][/\ pc \in FilterPcs => Len(result') <= Len(result)
          /\ pc \in MapPcs \cup {"return"} => Len(result') = Len(result)]_vars

\* C1 witness: lines() has returned fewer lines than it read, but not none.
LengthMonotoneWitness ==
    /\ pc = "done"
    /\ Len(result) >= 1
    /\ Len(result) < Len(Input)

\* C2: the output is the per-line rewrite of a subsequence of the input,
\* in the input's order.
OrderPreserved == pc = "done" => Survivors # {}

\* C2 witness: two different lines survive, one of them rewritten, and a
\* line of the input was dropped.
OrderPreservedWitness ==
    /\ pc = "done"
    /\ Len(result) >= 2
    /\ Len(result) < Len(Input)
    /\ result[1] # result[2]
    /\ \E j \in DOMAIN result : \A i \in DOMAIN Input : result[j] # Input[i]

\* C3 as claimed: no line whose first non-indentation content is "package"
\* survives into the output.
IndentedPackageAbsent ==
    pc = "done" =>
        \E S \in Survivors :
            \A i \in S : ~StartsWith(LStrip(Input[i]), KwPackage)

\* C3 amended: no line that starts with "package" at its first column
\* survives into the output.
PackageAbsent ==
    pc = "done" =>
        \E S \in Survivors : \A i \in S : ~StartsWith(Input[i], KwPackage)

\* C3 witness: a line starting with "package" was read, and another line
\* came through.
PackageAbsentWitness ==
    /\ pc = "done"
    /\ \E i \in DOMAIN Input : StartsWith(Input[i], KwPackage)
    /\ Len(result) >= 1

\* The line list lines() holds before it strips "val ".
AfterImports ==
    DropImportScala(RewriteFunctions(RewriteDataFrame(DropPackage(Input))))

\* The closing-brace filter run before the two stripping statements.
BraceFilterFirst == StripVar(StripVal(DropClosingBrace(AfterImports)))

\* C7 as claimed: filtering closing braces before stripping "val "/"var "
\* gives the list that filtering after gives.
BraceFilterIndependent == pc = "def" => result = BraceFilterFirst

\* C7 amended: filtering after the stripping gives what filtering before and
\* once more after gives.
BraceFilterSubsumes ==
    pc = "def" => result = DropClosingBrace(BraceFilterFirst)

\* C7 witness: the two orders differ: a line became a bare closing brace
\* only by the stripping.
BraceFilterSubsumesWitness ==
    /\ pc = "def"
    /\ result # BraceFilterFirst
    /\ result # <<>>

\* The position in the output of the input line i, for the survivors S.
OutPos(S, i) == Cardinality({y \in S : y <= i})

\* The line is the statement "import org.apache.spark.sql.DataFrame".
IsDataFrameStatement(x) ==
    x = ScalaDataFrameImport \/ x = ScalaDataFrameImport \o NL

\* The line terminator of a line: a newline, or nothing.
Terminator(x) == IF x # <<>> /\ x[Len(x)] = "\n" THEN NL ELSE <<>>

\* "from pyspark.sql.dataframe import DataFrame", without a terminator.
PyDataFrameStatement == SubSeq(PyDataFrameImport, 1, Len(PyDataFrameImport) - 1)

\* C8 as claimed: a DataFrame import statement comes out as the pyspark
\* import followed by the terminator the input line had.
DataFrameImportKeepsTerminator ==
    pc = "done" =>
        \E S \in Survivors :
            \A i \in DOMAIN Input :
                IsDataFrameStatement(Input[i]) =>
                    /\ i \in S
                    /\ result[OutPos(S, i)]
                          = PyDataFrameStatement \o Terminator(Input[i])

\* C8 amended: a DataFrame import statement comes out as the pyspark import
\* followed by a newline, whether or not the input line had one.
DataFrameImportEndsInNewline ==
    pc = "done" =>
        \E S \in Survivors :
            \A i \in DOMAIN Input :
                IsDataFrameStatement(Input[i]) =>
                    /\ i \in S
                    /\ result[OutPos(S, i)] = PyDataFrameStatement \o NL

\* C8 witness: the last line is the statement without a terminator, and a
\* line before it came through too.
DataFrameImportWitness ==
    /\ pc = "done"
    /\ Len(result) >= 2
    /\ Input[Len(Input)] = ScalaDataFrameImport
    /\ result[Len(result)] = PyDataFrameStatement \o NL

\* The number of places of s where p occurs.
Occurrences(s, p) ==
    Cardinality({i \in 1..Len(s) : StartsWith(From(s, i), p)})

\* The line holds one of the binding keywords.
HasBinding(x) == Contains(x, KwVal) \/ Contains(x, KwVar)

\* C9 as claimed: after the two stripping statements no line contains
\* "val " or "var ".
BindingsAbsent ==
    pc = "brace" => \A j \in DOMAIN result : ~HasBinding(result[j])

\* C9 amended: the first statement removes every "val " of the line it is
\* given and the second every "var " of the line it is given, so a line
\* that still holds a keyword holds it where a removal joined the text on
\* its two sides.
BindingsRemovedOnce ==
    pc = "brace" =>
        /\ Len(result) = Len(AfterImports)
        /\ \A j \in DOMAIN result :
            LET x == AfterImports[j]
                removed == Occurrences(x, KwVal)
                            + Occurrences(ValLine(x), KwVar)
            IN  /\ Len(result[j]) + 4 * removed = Len(x)
                /\ HasBinding(result[j]) => removed >= 1

\* C9 witness: a line still holds a keyword after both statements.
BindingsRemovedOnceWitness ==
    /\ pc = "brace"
    /\ \E j \in DOMAIN result : HasBinding(result[j])

\* C10: no line of the output contains "null", "true" or "false".
NoScalaLiterals ==
    pc = "done" =>
        \A j \in DOMAIN result :
            /\ ~Contains(result[j], LitNull)
            /\ ~Contains(result[j], LitTrue)
            /\ ~Contains(result[j], LitFalse)

\* C10 witness: the text held "null" between the two halves of another
\* "null", and a second literal.
NoScalaLiteralsWitness ==
    /\ pc = "done"
    /\ Contains(text, LitTrue) \/ Contains(text, LitFalse)
    /\ \E j \in DOMAIN result :
        Contains(result[j], <<"n", "u">> \o LitNone \o <<"l", "l">>)

\* s is one line: it has no newline but, possibly, its last character.
IsLine(s) == \A i \in 1..(Len(s) - 1) : s[i] # "\n"

\* The leading whitespace of the line.
Indent(s) == SubSeq(s, 1, Len(s) - Len(LStrip(s)))

\* The longest run of word characters s starts with.
RECURSIVE Word(_)
Word(s) ==
    IF s # <<>> /\ Head(s) \in WordChars
    THEN <<Head(s)>> \o Word(Tail(s))
    ELSE <<>>

\* What follows the first "def " of the line.
AfterDef(s) ==
    IF Contains(s, DefPrefix) THEN From(s, Find(s, DefPrefix) + 4) ELSE <<>>

\* The function name: the word after "def ".
FunctionName(s) == Word(AfterDef(s))

\* The text of the first parenthesis group after the function name.
FirstGroup(s) ==
    LET rest == From(AfterDef(s), Len(FunctionName(s)) + 1)
        open == Find(rest, <<"(">>)
        inner == From(rest, open + 1)
        close == Find(inner, <<")">>)
    IN  IF open = 0 \/ close = 0 THEN <<>> ELSE SubSeq(inner, 1, close - 1)

\* The parentheses of s are balanced and not nested, d of them (0 or 1)
\* being open before s.
RECURSIVE FlatParens(_, _)
FlatParens(s, d) ==
    IF s = <<>> THEN d = 0
    ELSE IF Head(s) = "(" THEN d = 0 /\ FlatParens(Tail(s), 1)
    ELSE IF Head(s) = ")" THEN d = 1 /\ FlatParens(Tail(s), 0)
    ELSE FlatParens(Tail(s), d)

\* clean_function_definition was called on a line lines() would pass it,
\* a line of parenthesis groups one after the other, and the pattern
\* matched.
CleanedDefinition ==
    /\ pc = "cleaned"
    /\ IsLine(text)
    /\ FlatParens(text, 0)
    /\ StartsWith(LStrip(text), KwDef)
    /\ ReMatches(text) # {}

\* C4 as claimed: a definition line comes out as its indentation, "def ",
\* the function name, and the bare names of its parameters in parentheses,
\* followed by a colon and a newline.
CleanerOutputForm ==
    CleanedDefinition =>
        result[1] = Indent(text) \o DefPrefix \o FunctionName(text) \o <<"(">>
                        \o clean_args(FirstGroup(text)) \o DefSuffix

\* C5 as claimed: of several parenthesis groups, the parameter text parsed
\* is that of the first group after the function name.
FirstGroupParsed ==
    CleanedDefinition /\ Occurrences(text, <<"(">>) >= 2 =>
        Group3(text, ReSearch(text)) = FirstGroup(text)

\* C6: cleaning a cleaned line returns it unchanged, and so does cleaning a
\* cleaned parameter list.
CleanerIdempotent ==
    pc = "recleaned" =>
        /\ result[2] = result[1]
        /\ ReMatches(text) # {} =>
            LET bare == clean_args(Group3(text, ReSearch(text)))
            IN  clean_args(bare) = bare

\* C6 witness: a definition with two annotated parameters was cleaned, and
\* cleaned again.
CleanerIdempotentWitness ==
    /\ pc = "recleaned"
    /\ result[1] # text
    /\ Len(Split(Group3(text, ReSearch(text)), CommaSpace)) >= 2
    /\ Contains(Group3(text, ReSearch(text)), ColonSpace)
    /\ result[2] = result[1]

====
